---- MODULE Spec2Model ----
(***************************************************************************)
(* The level simulation of the breakout game in src/engine.py: the Level   *)
(* (paddle, ball, blocks, boundary, game state), its per-tick update, and  *)
(* the frame loop of Game.run that drives it.                              *)
(*                                                                         *)
(* Rectangles are pygame.Rect values: integer x, y, w, h.  Assigning a     *)
(* float to a Rect attribute truncates it toward zero.  A pygame.Vector2   *)
(* holds floats; it is kept here as the exact rational (x / SpeedDen^e,    *)
(* y / SpeedDen^e), so the 1.02 speed-up is computed, not approximated.    *)
(* The level is a scaled-down board (see Edges, Images, BlocksLayout) with *)
(* the proportions of the layouts the game builds: the ball is narrower    *)
(* than the gap between block columns and taller than the gap between      *)
(* block rows, the paddle is faster than the ball and wider than it.       *)
(*                                                                         *)
(* Five specifications share the definitions:                              *)
(*   Spec         the frame loop on the board of a 700 x 500 window;       *)
(*   NarrowSpec   the frame loop on the board of a narrow window, where    *)
(*                the gap between block columns is narrower than the ball; *)
(*   LowSpec      the frame loop on a board whose last row of blocks lies  *)
(*                on the bottom of the window;                             *)
(*   PlatformSpec the frame loop on a level whose platform was given a     *)
(*                speed with a vertical component;                         *)
(*   FactorySpec  Game.__init__ and the set-up of Game.run at full scale,  *)
(*                over a range of constructor arguments.                   *)
(***************************************************************************)
EXTENDS Integers, Sequences, FiniteSets, TLC

VARIABLES level, running, is_paused, is_menu_showing, ev, level_maker

vars == <<level, running, is_paused, is_menu_showing, ev, level_maker>>

----------------------------------------------------------------------------
(* Bounds of the model *)

\* number of tries a level starts with (lifes=4 in LevelMaker.get_level)
Lifes == 2

\* most events pygame.event.get() returns in one frame
MaxEvents == 1

\* largest num_of_columns and num_of_rows handed to Game
MaxColumns == 10

MaxRows == 5

(* Program constants *)

\* self.state.score += 100
ScoreStep == 100

\* self.ball.speed *= 1.02, as the fraction SpeedNum / SpeedDen
SpeedNum == 102

SpeedDen == 100

----------------------------------------------------------------------------
(* Inputs of the level: board, sprite sizes, block layout.  The game runs  *)
(* on a 700 x 500 board with a 65 x 20 platform of speed 5, a 15 x 15 ball *)
(* of speed 2 and rows of blocks 20 high, 30 apart, 21 from each other;    *)
(* the values below are that level at a smaller scale.  As in the game:    *)
(* the gap between two columns of blocks and between the blocks and the    *)
(* side edges is wider than the ball, the gap between two rows is less     *)
(* than the ball's height, the room above the first row, between the last  *)
(* row and the platform and below the platform is more than the ball's     *)
(* height plus its speed, and the platform overhangs a ball centred on it  *)
(* by at least the platform's speed on each side.                          *)

\* Edges(width, height) handed to Game
Edges == [width |-> 12, height |-> 18]

\* sizes of the sprites' images: (width, height)
Images == [platform |-> <<6, 2>>, ball |-> <<2, 2>>, block |-> <<4, 1>>]

\* blocks_layout of LevelMaker, and the y of the first row of blocks
BlocksLayout ==
    [horizontal_margin |-> 3, vertical_margin |-> 2, num_of_rows |-> 2, first_row |-> 5]

\* top_start: where the top of the game area lies
TopStart == [top |-> 1]

\* the speeds of the platform and of the released ball
Start == [platform_speed |-> 2, ball_speed |-> 1]

(* The same level in a narrow window: Game derives the gap between the     *)
(* columns from the window's width (3 % of it) but not the ball's size, so *)
(* below a width of 484 the gap (at most 14) is narrower than the ball     *)
(* (15).  At the smaller scale: a gap of 1 and a ball 3 wide.              *)

NarrowEdges == [width |-> 8, height |-> 18]

NarrowImages == [platform |-> <<4, 2>>, ball |-> <<3, 3>>, block |-> <<2, 1>>]

NarrowLayout ==
    [horizontal_margin |-> 1, vertical_margin |-> 2, num_of_rows |-> 2, first_row |-> 5]

(* A level whose rows of blocks reach down to the bottom edge: LevelMaker  *)
(* places num_of_rows rows, vertical_margin apart, whatever the height of  *)
(* the level is.  At the smaller scale: two rows, the second one below the *)
(* platform, on the bottom of the window.                                  *)

LowEdges == [width |-> 8, height |-> 18]

LowImages == [platform |-> <<4, 2>>, ball |-> <<2, 2>>, block |-> <<2, 2>>]

LowLayout ==
    [horizontal_margin |-> 3, vertical_margin |-> 11, num_of_rows |-> 2, first_row |-> 5]

----------------------------------------------------------------------------
(* pygame.Rect and pygame.Vector2 *)

Rect(x, y, w, h) == [x |-> x, y |-> y, w |-> w, h |-> h]

Left(r) == r.x

Right(r) == r.x + r.w

Top(r) == r.y

Bottom(r) == r.y + r.h

CenterX(r) == r.x + (r.w \div 2)

SetLeft(r, v) == [r EXCEPT !.x = v]

SetRight(r, v) == [r EXCEPT !.x = v - r.w]

SetTop(r, v) == [r EXCEPT !.y = v]

SetBottom(r, v) == [r EXCEPT !.y = v - r.h]

SetCenterX(r, v) == [r EXCEPT !.x = v - (r.w \div 2)]

\* Vector2(x, y) with integer components
Vector2(x, y) == [x |-> x, y |-> y, e |-> 0]

VecNeg(n) == 0 - n

Abs(n) == IF n < 0 THEN 0 - n ELSE n

\* speed *= 1.02
SpeedUp(v) == [x |-> v.x * SpeedNum, y |-> v.y * SpeedNum, e |-> v.e + 1]

\* int(pos + num / SpeedDen^e): the float sum, truncated toward zero by the
\* Rect attribute it is assigned to
AddTrunc(pos, num, e) ==
    LET d == SpeedDen ^ e
        fl == pos + (num \div d)
    IN  IF num % d = 0 \/ fl >= 0 THEN fl ELSE fl + 1

\* pygame.sprite.collide_rect: the rectangles overlap (touching edges do not)
CollideRect(a, b) ==
    /\ Left(a) < Right(b)
    /\ Right(a) > Left(b)
    /\ Top(a) < Bottom(b)
    /\ Bottom(a) > Top(b)

----------------------------------------------------------------------------
(* Entities *)

\* PlatformMove as MovableEntity.move would do it, along both axes
PlatformMoveBothAxes(p) ==
    [p EXCEPT !.rect.x = AddTrunc(p.rect.x, p.speed.x, p.speed.e),
              !.rect.y = AddTrunc(p.rect.y, p.speed.y, p.speed.e)]

\* MovableEntity.move (Ball): rect.move_ip(speed.x, speed.y)
\* Platform.move: rect.move_ip(speed.x, 0), the vertical speed is ignored
PlatformMove(p) ==
    [p EXCEPT !.rect.x = AddTrunc(p.rect.x, p.speed.x, p.speed.e)]

\* Block.__init__: a block starts not destroyed
Block(rect) == [rect |-> rect, is_destroyed |-> FALSE]

\* Block.set_is_destroyed
SetIsDestroyed(b) == [b EXCEPT !.is_destroyed = TRUE]

----------------------------------------------------------------------------
(* Level *)

\* Level.GameState
GameState(speed, lifes) ==
    [ball_released_speed |-> speed,
     score |-> 0,
     lifes |-> lifes,
     is_game_over |-> FALSE,
     is_ball_released |-> FALSE,
     is_player_won |-> FALSE]

\* Level.reset_ball: the ball is tied to the platform again
ResetBall(l) ==
    [l EXCEPT
        !.ball.rect = SetCenterX(SetBottom(l.ball.rect, Top(l.platform.rect)),
                                 CenterX(l.platform.rect)),
        !.ball.speed = Vector2(0, 0),
        !.state.is_ball_released = FALSE]

\* LevelInit that leaves the ball where it was constructed
LevelInitNoReset(lifes, blocks, platform, ball, edges, top_start) ==
    [blocks |-> blocks,
     platform |-> platform,
     ball |-> ball,
     edges |-> Rect(0, top_start, edges.width, edges.height),
     state |-> GameState(ball.speed, lifes)]

\* Level.__init__
LevelInit(lifes, blocks, platform, ball, edges, top_start) ==
    ResetBall(
        [blocks |-> blocks,
         platform |-> platform,
         ball |-> ball,
         edges |-> Rect(0, top_start, edges.width, edges.height),
         state |-> GameState(ball.speed, lifes)])

\* ReleaseBall that launches the ball again whenever it is called
ReleaseBallAlways(l) ==
    [l EXCEPT !.state.is_ball_released = TRUE,
              !.ball.speed = l.state.ball_released_speed]

\* ReleaseBall that marks the ball released but leaves its speed
ReleaseBallKeepsSpeed(l) ==
    IF ~l.state.is_ball_released
    THEN [l EXCEPT !.state.is_ball_released = TRUE]
    ELSE l

\* Level.release_ball: a no-op once the ball is released
ReleaseBall(l) ==
    IF ~l.state.is_ball_released
    THEN [l EXCEPT !.state.is_ball_released = TRUE,
                   !.ball.speed = l.state.ball_released_speed]
    ELSE l

\* AdjustOnXCollision that snaps the mover but keeps its speed
AdjustOnXNoReflect(m, r2) ==
    LET snapped ==
            IF Right(m.rect) > Left(r2) /\ Right(m.rect) < Right(r2)
            THEN SetRight(m.rect, Left(r2))
            ELSE SetLeft(m.rect, Right(r2))
    IN  [m EXCEPT !.rect = snapped]

\* Level.adjust_on_x_collision(movable_entity_1, entity_2)
AdjustOnXCollision(m, r2) ==
    LET snapped ==
            IF Right(m.rect) > Left(r2) /\ Right(m.rect) < Right(r2)
            THEN SetRight(m.rect, Left(r2))
            ELSE SetLeft(m.rect, Right(r2))
    IN  [m EXCEPT !.rect = snapped, !.speed.x = VecNeg(m.speed.x)]

\* Level.adjust_on_y_collision(movable_entity): rect.y -= speed.y, then reflect
AdjustOnYCollision(m) ==
    [m EXCEPT !.rect.y = AddTrunc(m.rect.y, VecNeg(m.speed.y), m.speed.e),
              !.speed.y = VecNeg(m.speed.y)]

\* the inner update() of process_key_presses: move the platform, and keep an
\* unreleased ball on it
KeyUpdate(l) ==
    LET p == PlatformMove(l.platform)
    IN  IF ~l.state.is_ball_released
        THEN [l EXCEPT !.platform = p,
                       !.ball.rect = SetCenterX(SetBottom(l.ball.rect, Top(p.rect)),
                                                CenterX(p.rect))]
        ELSE [l EXCEPT !.platform = p]

\* the K_a branch
KeyLeft(l) == KeyUpdate([l EXCEPT !.platform.speed.x = 0 - Abs(l.platform.speed.x)])

\* the K_d branch
KeyRight(l) == KeyUpdate([l EXCEPT !.platform.speed.x = Abs(l.platform.speed.x)])

\* Level.process_key_presses; keys = [ctrl, a, d]
ProcessKeyPresses(l, keys) ==
    LET l1 == IF keys.ctrl THEN ReleaseBall(l) ELSE l
        l2 == IF keys.a THEN KeyLeft(l1) ELSE l1
    IN  IF keys.d THEN KeyRight(l2) ELSE l2

----------------------------------------------------------------------------
(* Level.process_collisions *)

\* XBlocks that marks every block the ball overlaps as it arrives, and
\* resolves against the first of them
XBlocksMarkAll(ball, blocks, i) ==
    LET hits == {j \in i..Len(blocks) : CollideRect(ball.rect, blocks[j].rect)}
        first == CHOOSE j \in hits : \A k \in hits : j <= k
    IN  [ball |-> IF hits = {} THEN ball
                  ELSE AdjustOnXCollision(ball, blocks[first].rect),
         blocks |-> [j \in 1..Len(blocks) |->
                        IF j \in hits THEN SetIsDestroyed(blocks[j]) ELSE blocks[j]]]

RECURSIVE XBlocks(_, _, _)
\* the for loop of the X pass over self.blocks from index i on: every block
\* the ball collides with is resolved against and marked, in list order
XBlocks(ball, blocks, i) ==
    IF i > Len(blocks) THEN [ball |-> ball, blocks |-> blocks]
    ELSE IF CollideRect(ball.rect, blocks[i].rect)
         THEN XBlocks(AdjustOnXCollision(ball, blocks[i].rect),
                      [blocks EXCEPT ![i] = SetIsDestroyed(blocks[i])], i + 1)
         ELSE XBlocks(ball, blocks, i + 1)

RECURSIVE YBlocks(_, _, _)
\* the for loop of the Y pass over self.blocks
YBlocks(ball, blocks, i) ==
    IF i > Len(blocks) THEN [ball |-> ball, blocks |-> blocks]
    ELSE IF CollideRect(ball.rect, blocks[i].rect)
         THEN YBlocks(AdjustOnYCollision(ball),
                      [blocks EXCEPT ![i] = SetIsDestroyed(blocks[i])], i + 1)
         ELSE YBlocks(ball, blocks, i + 1)

\* self.ball.rect.x += self.ball.speed.x
MoveX(l) ==
    [l EXCEPT !.ball.rect.x = AddTrunc(l.ball.rect.x, l.ball.speed.x, l.ball.speed.e)]

\* self.ball.rect.y += self.ball.speed.y
MoveY(l) ==
    [l EXCEPT !.ball.rect.y = AddTrunc(l.ball.rect.y, l.ball.speed.y, l.ball.speed.e)]

\* which branch of the X pass applies to a level whose ball has moved on X
XBranch(m) ==
    IF CollideRect(m.ball.rect, m.platform.rect) THEN "platform"
    ELSE IF Right(m.ball.rect) > Right(m.edges) THEN "right"
    ELSE IF Left(m.ball.rect) < Left(m.edges) THEN "left"
    ELSE "blocks"

\* checking collision on the X axis
XPass(l) ==
    LET m == MoveX(l)
        br == XBranch(m)
        hit == XBlocks(m.ball, m.blocks, 1)
    IN  CASE br = "platform" ->
                [m EXCEPT !.ball = AdjustOnXCollision(m.ball, m.platform.rect)]
          [] br = "right" ->
                [m EXCEPT !.ball.rect = SetRight(m.ball.rect, Right(m.edges)),
                          !.ball.speed.x = VecNeg(m.ball.speed.x)]
          [] br = "left" ->
                [m EXCEPT !.ball.rect = SetLeft(m.ball.rect, Left(m.edges)),
                          !.ball.speed.x = VecNeg(m.ball.speed.x)]
          [] OTHER ->
                [m EXCEPT !.ball = hit.ball, !.blocks = hit.blocks]

\* which branch of the Y pass applies to a level whose ball has moved on Y
YBranch(m) ==
    IF CollideRect(m.ball.rect, m.platform.rect) THEN "platform"
    ELSE IF Bottom(m.ball.rect) > Bottom(m.edges) THEN "bottom"
    ELSE IF Top(m.ball.rect) < Top(m.edges) THEN "top"
    ELSE "blocks"

\* LoseBall that forgets to tie the ball to the platform again
LoseBallNoReset(m) == [m EXCEPT !.state.lifes = m.state.lifes - 1]

\* LoseBall that takes two tries
LoseBallTwice(m) ==
    LET r == ResetBall(m)
    IN  [r EXCEPT !.state.lifes = r.state.lifes - 2]

\* the bottom edge branch: the ball is lost
LoseBall(m) ==
    LET r == ResetBall(m)
    IN  [r EXCEPT !.state.lifes = r.state.lifes - 1]

\* checking collision on the Y axis
YPass(l) ==
    LET m == MoveY(l)
        br == YBranch(m)
        hit == YBlocks(m.ball, m.blocks, 1)
    IN  CASE br = "platform" ->
                [m EXCEPT !.ball = AdjustOnYCollision(m.ball)]
          [] br = "bottom" -> LoseBall(m)
          [] br = "top" ->
                [m EXCEPT !.ball.rect = SetTop(m.ball.rect, Top(m.edges)),
                          !.ball.speed.y = VecNeg(m.ball.speed.y)]
          [] OTHER ->
                [m EXCEPT !.ball = hit.ball, !.blocks = hit.blocks]

\* is_squeezing_on_y and is_squeezing_on_x
IsSqueezing(l) ==
    /\ \/ Bottom(l.ball.rect) < Top(l.platform.rect)
       \/ Top(l.ball.rect) < Bottom(l.platform.rect)
    /\ \/ Right(l.ball.rect) > Right(l.edges)
       \/ Left(l.ball.rect) < Left(l.edges)

\* if platform "squeezes" ball to the left or right level edge
Squeeze(l) ==
    IF IsSqueezing(l)
    THEN [l EXCEPT !.ball.rect = SetTop(l.ball.rect, Bottom(l.platform.rect))]
    ELSE l

\* which edge the platform is out of
ClampBranch(l) ==
    IF Right(l.platform.rect) > Right(l.edges) THEN "right"
    ELSE IF Left(l.platform.rect) < Left(l.edges) THEN "left"
    ELSE "none"

\* PlatformClamp without the branch of the left edge
PlatformClampRightOnly(l) ==
    IF ClampBranch(l) = "right"
    THEN [l EXCEPT !.platform.rect = SetRight(l.platform.rect, Right(l.edges)),
                   !.platform.speed.x = VecNeg(l.platform.speed.x)]
    ELSE l

\* if platform out of level edges
PlatformClamp(l) ==
    CASE ClampBranch(l) = "right" ->
            [l EXCEPT !.platform.rect = SetRight(l.platform.rect, Right(l.edges)),
                      !.platform.speed.x = VecNeg(l.platform.speed.x)]
      [] ClampBranch(l) = "left" ->
            [l EXCEPT !.platform.rect = SetLeft(l.platform.rect, Left(l.edges)),
                      !.platform.speed.x = VecNeg(l.platform.speed.x)]
      [] OTHER -> l

ProcessCollisions(l) == PlatformClamp(Squeeze(YPass(XPass(l))))

----------------------------------------------------------------------------
(* Level.update *)

\* list.remove of the element at index i
RemoveAt(s, i) == SubSeq(s, 1, i - 1) \o SubSeq(s, i + 1, Len(s))

RECURSIVE RemoveLoop(_, _)
\* "for block in self.blocks: if block.is_destroyed: self.blocks.remove(block)
\* ...": the list iterator keeps its index while the list shrinks, so the loop
\* goes on at index i + 1 of the shortened list
RemoveLoop(l, i) ==
    IF i > Len(l.blocks) THEN l
    ELSE IF l.blocks[i].is_destroyed
         THEN RemoveLoop([l EXCEPT !.blocks = RemoveAt(l.blocks, i),
                                   !.state.score = l.state.score + ScoreStep,
                                   !.ball.speed = SpeedUp(l.ball.speed)],
                         i + 1)
         ELSE RemoveLoop(l, i + 1)

\* remove destroyed block and increase score correspondingly
RemoveDestroyed(l) == RemoveLoop(l, 1)

\* Terminate that never declares the victory
TerminateNoVictory(l) ==
    IF l.state.lifes < 1 THEN [l EXCEPT !.state.is_game_over = TRUE] ELSE l

\* Terminate with two independent tests instead of if / elif
TerminateBothTests(l) ==
    LET over == IF l.state.lifes < 1 THEN [l EXCEPT !.state.is_game_over = TRUE] ELSE l
    IN  IF Len(l.blocks) = 0 THEN [over EXCEPT !.state.is_player_won = TRUE] ELSE over

\* the closing if / elif of update
Terminate(l) ==
    IF l.state.lifes < 1 THEN [l EXCEPT !.state.is_game_over = TRUE]
    ELSE IF Len(l.blocks) = 0 THEN [l EXCEPT !.state.is_player_won = TRUE]
    ELSE l

Update(l, keys) == Terminate(RemoveDestroyed(ProcessCollisions(ProcessKeyPresses(l, keys))))

----------------------------------------------------------------------------
(* LevelMaker.get_level *)

\* round(n / d) for d > 0: Python rounds a half to the even neighbour
Round(n, d) ==
    LET q == n \div d
        r == n % d
    IN  IF 2 * r < d THEN q
        ELSE IF 2 * r > d THEN q + 1
        ELSE IF q % 2 = 0 THEN q ELSE q + 1

\* the int a Rect keeps of the float n / d: the fraction is cut off
Trunc(n, d) == IF n >= 0 THEN n \div d ELSE 0 - ((0 - n) \div d)

\* the values get_level writes out or derives itself: the tries, the speed
\* of the platform, the speed of the released ball, top_margin and the y of
\* the first row of blocks
GetLevelLocals(edges, images) ==
    LET top_margin == images.ball[2] * 3
    IN  [lifes |-> 4,
         platform_speed |-> 5,
         ball_speed |-> Round(edges.height * 5, 1000),
         top_margin |-> top_margin,
         first_row |-> Round(images.ball[2] * 22 + top_margin * 10, 10)]

\* LevelMaker.__init__: the object keeps its arguments.  locals are the
\* values of GetLevelLocals, which the boards of the smaller scale replace
\* by theirs.
LevelMaker(edges, images, blocks_layout, locals) ==
    [error |-> FALSE,
     edges |-> edges,
     images |-> images,
     horizontal_margin |-> blocks_layout.horizontal_margin,
     vertical_margin |-> blocks_layout.vertical_margin,
     num_of_rows |-> blocks_layout.num_of_rows,
     locals |-> locals]

RECURSIVE PlaceRowNoMargin(_, _, _, _)
\* PlaceRow that leaves no margin between the blocks of a row
PlaceRowNoMargin(mk, x, y, blocks) ==
    IF x + mk.images.block[1] < mk.edges.width /\ mk.images.block[1] > 0
    THEN PlaceRowNoMargin(mk, x + mk.images.block[1], y,
                          Append(blocks,
                                 Block(Rect(x, y, mk.images.block[1], mk.images.block[2]))))
    ELSE blocks

RECURSIVE PlaceRow(_, _, _, _)
\* the while loop placing one row of blocks from x on
PlaceRow(mk, x, y, blocks) ==
    IF x + mk.images.block[1] < mk.edges.width
    THEN PlaceRow(mk, x + mk.images.block[1] + mk.horizontal_margin, y,
                  Append(blocks,
                         Block(Rect(x, y, mk.images.block[1], mk.images.block[2]))))
    ELSE blocks

RECURSIVE PlaceRows(_, _, _, _)
\* the for loop over the rows, from row i on
PlaceRows(mk, i, y, blocks) ==
    IF i < mk.num_of_rows
    THEN PlaceRows(mk, i + 1, y + mk.vertical_margin,
                   PlaceRow(mk, mk.horizontal_margin, y, blocks))
    ELSE blocks

\* the level the game starts with, and restarts with on a reset
GetLevel(mk) ==
    LevelInit(
        mk.locals.lifes,
        PlaceRows(mk, 0, mk.locals.first_row, <<>>),
        [rect |-> Rect(Trunc(mk.edges.width, 2), Trunc(mk.edges.height * 75, 100),
                       mk.images.platform[1], mk.images.platform[2]),
         speed |-> Vector2(mk.locals.platform_speed, 0)],
        [rect |-> Rect(0, 0, mk.images.ball[1], mk.images.ball[2]),
         speed |-> Vector2(mk.locals.ball_speed, 0 - mk.locals.ball_speed)],
        mk.edges,
        mk.locals.top_margin)

\* the LevelMaker of the board at the smaller scale
BoardMaker ==
    LevelMaker(Edges, Images, BlocksLayout,
               [lifes |-> Lifes,
                platform_speed |-> Start.platform_speed,
                ball_speed |-> Start.ball_speed,
                top_margin |-> TopStart.top,
                first_row |-> BlocksLayout.first_row])

\* the LevelMaker of the board of the narrow window, for a game of one try
NarrowMaker ==
    LevelMaker(NarrowEdges, NarrowImages, NarrowLayout,
               [lifes |-> 1,
                platform_speed |-> Start.platform_speed,
                ball_speed |-> Start.ball_speed,
                top_margin |-> TopStart.top,
                first_row |-> NarrowLayout.first_row])

\* the LevelMaker of the board with the low row, for a game of one try
LowMaker ==
    LevelMaker(LowEdges, LowImages, LowLayout,
               [lifes |-> 1,
                platform_speed |-> Start.platform_speed,
                ball_speed |-> Start.ball_speed,
                top_margin |-> TopStart.top,
                first_row |-> LowLayout.first_row])

----------------------------------------------------------------------------
(* Game.__init__ *)

\* what Game.__init__ leaves when it raises: no Game object, no LevelMaker
NoGame == [error |-> TRUE]

\* self.level_maker as Game.__init__ builds it.  The division by
\* num_of_columns raises ZeroDivisionError for 0 columns, and
\* pygame.Surface raises pygame.error for a negative block width.
GameInit(edges, num_of_columns, num_of_rows) ==
    IF num_of_columns = 0 THEN NoGame
    ELSE LET horizontal_margin == Round(edges.width * 3, 100)
             block_width ==
                 Round(edges.width - horizontal_margin * 2
                           - horizontal_margin * num_of_columns,
                       num_of_columns)
             images == [platform |-> <<65, 20>>,
                        ball |-> <<15, 15>>,
                        block |-> <<block_width, 20>>]
         IN  IF block_width < 0 THEN NoGame
             ELSE LevelMaker(edges, images,
                             [horizontal_margin |-> horizontal_margin,
                              vertical_margin |-> Round(edges.height * 6, 100),
                              num_of_rows |-> num_of_rows],
                             GetLevelLocals(edges, images))

----------------------------------------------------------------------------
(* Game.run: one iteration of the frame loop *)

\* the events the loop reacts to
Events == {"QUIT", "K_SPACE", "K_q", "K_DELETE"}

\* what pygame.event.get() may return in a frame
EventLists == UNION {[1..n -> Events] : n \in 0..MaxEvents}

\* what pygame.key.get_pressed() may return, as far as the level reads it
Keys == [ctrl : BOOLEAN, a : BOOLEAN, d : BOOLEAN]

\* HandleEvent whose reset carries the score over to the new level
HandleEventKeepsScore(g, e) ==
    CASE e = "QUIT" -> [g EXCEPT !.running = FALSE]
      [] e = "K_SPACE" -> [g EXCEPT !.is_paused = ~g.is_paused,
                                    !.is_menu_showing = FALSE]
      [] e = "K_q" -> [g EXCEPT !.running = FALSE]
      [] e = "K_DELETE" ->
            [g EXCEPT !.level = [GetLevel(level_maker) EXCEPT
                                     !.state.score = g.level.state.score],
                      !.is_paused = FALSE,
                      !.is_menu_showing = TRUE]
      [] OTHER -> g

\* the body of "for event in pygame.event.get()" for one event; g holds the
\* loop's locals running, is_paused, is_menu_showing and level
HandleEvent(g, e) ==
    CASE e = "QUIT" -> [g EXCEPT !.running = FALSE]
      [] e = "K_SPACE" -> [g EXCEPT !.is_paused = ~g.is_paused,
                                    !.is_menu_showing = FALSE]
      [] e = "K_q" -> [g EXCEPT !.running = FALSE]
      [] e = "K_DELETE" -> [g EXCEPT !.level = GetLevel(level_maker),
                                     !.is_paused = FALSE,
                                     !.is_menu_showing = TRUE]
      [] OTHER -> g

RECURSIVE HandleEvents(_, _, _)
HandleEvents(g, evs, i) ==
    IF i > Len(evs) THEN g ELSE HandleEvents(HandleEvent(g, evs[i]), evs, i + 1)

\* ShouldUpdate without the game over test
ShouldUpdateNoGameOver(st, paused) ==
    /\ ~st.is_player_won
    /\ ~paused

\* ShouldUpdate without the victory test
ShouldUpdateNoVictory(st, paused) ==
    /\ ~st.is_game_over
    /\ ~paused

\* the if / elif chain that decides whether level.update() is called
ShouldUpdate(st, paused) ==
    /\ ~st.is_game_over
    /\ ~st.is_player_won
    /\ ~paused

\* number of blocks of a list that are marked destroyed
NumDestroyed(blocks) == Cardinality({i \in 1..Len(blocks) : blocks[i].is_destroyed})

\* number of blocks of a list the rectangle collides with
NumHit(rect, blocks) ==
    Cardinality({i \in 1..Len(blocks) : CollideRect(rect, blocks[i].rect)})

\* what the last frame did: whether it replaced the level, whether it called
\* level.update(), and for an update whether the release key was down, the
\* branches its passes took, and the most blocks the ball overlapped at
\* once when a pass came to its loop over the blocks
NoTick(reset) ==
    [reset |-> reset, updated |-> FALSE, ctrl |-> FALSE, released |-> FALSE, xb |-> "none",
     yb |-> "none", struck |-> 0, hits |-> 0, squeezed |-> FALSE, clamp |-> "none"]

TickOf(l, keys, reset) ==
    LET l1 == ProcessKeyPresses(l, keys)
        l2 == XPass(l1)
        l3 == YPass(l2)
        l4 == Squeeze(l3)
        mx == MoveX(l1)
        my == MoveY(l2)
        xhits == IF XBranch(mx) = "blocks" THEN NumHit(mx.ball.rect, mx.blocks) ELSE 0
        yhits == IF YBranch(my) = "blocks" THEN NumHit(my.ball.rect, my.blocks) ELSE 0
    IN  [reset |-> reset,
         updated |-> TRUE,
         ctrl |-> keys.ctrl,
         released |-> l1.state.is_ball_released /\ ~l.state.is_ball_released,
         xb |-> XBranch(MoveX(l1)),
         yb |-> YBranch(MoveY(l2)),
         struck |-> NumDestroyed(l3.blocks) - NumDestroyed(l1.blocks),
         hits |-> IF xhits > yhits THEN xhits ELSE yhits,
         squeezed |-> IsSqueezing(l3),
         clamp |-> ClampBranch(l4)]

Frame(evs, keys) ==
    /\ running
    /\ LET g == HandleEvents([running |-> running, is_paused |-> is_paused,
                              is_menu_showing |-> is_menu_showing, level |-> level],
                             evs, 1)
           reset == \E i \in 1..Len(evs) : evs[i] = "K_DELETE"
           upd == ShouldUpdate(g.level.state, g.is_paused)
       IN  /\ running' = g.running
           /\ is_paused' = g.is_paused
           /\ is_menu_showing' = g.is_menu_showing
           /\ level' = IF upd THEN Update(g.level, keys) ELSE g.level
           /\ ev' = IF upd THEN TickOf(g.level, keys, reset) ELSE NoTick(reset)
           /\ UNCHANGED level_maker

\* the state Game.run enters its loop in, for a game with LevelMaker mk
LoopEntry(mk) ==
    /\ level_maker = mk
    /\ level = GetLevel(mk)
    /\ running = TRUE
    /\ is_paused = FALSE
    /\ is_menu_showing = TRUE
    /\ ev = NoTick(FALSE)

Init == LoopEntry(BoardMaker)

Next == \E evs \in EventLists, keys \in Keys : Frame(evs, keys)

Spec == Init /\ [][Next]_vars

\* the same loop on the board of the narrow window
NarrowInit == LoopEntry(NarrowMaker)

NarrowSpec == NarrowInit /\ [][Next]_vars

\* the same loop on the board with the low row
LowInit == LoopEntry(LowMaker)

LowSpec == LowInit /\ [][Next]_vars

\* vertical speeds a caller of Platform.__init__ may give the platform
PlatformSpeedsY == {-1, 1}

\* the LevelMaker of the board at the smaller scale with one row of blocks,
\* for a game of one try
PlatformMaker == [BoardMaker EXCEPT !.locals.lifes = 1, !.num_of_rows = 1]

\* the same loop stepping a level whose platform was constructed with a
\* vertical component in its speed; Level.__init__ does not look at it
PlatformInit ==
    \E vy \in PlatformSpeedsY :
        /\ level_maker = PlatformMaker
        /\ level = [GetLevel(PlatformMaker) EXCEPT !.platform.speed.y = vy]
        /\ running = TRUE
        /\ is_paused = FALSE
        /\ is_menu_showing = TRUE
        /\ ev = NoTick(FALSE)

PlatformSpec == PlatformInit /\ [][Next]_vars

----------------------------------------------------------------------------
(* Construction: Game(edges, num_of_columns, num_of_rows), then the lines  *)
(* of Game.run before its loop.  The arguments are drawn from the window   *)
(* sizes and counts below; the products and quotients the constructor      *)
(* rounds are exact in floating point for these sizes.                     *)

\* widths and heights of the window, the degenerate 0 among them
Widths == {0, 400, 700}

Heights == {0, 300, 500}

GameArgs ==
    [edges : [width : Widths, height : Heights],
     num_of_columns : 0..MaxColumns,
     num_of_rows : 0..MaxRows]

\* level before Game.run has assigned it
NoLevel == [state |-> "none"]

\* the state after Game.__init__ returned or raised
FactoryInit ==
    /\ \E a \in GameArgs :
           level_maker = GameInit(a.edges, a.num_of_columns, a.num_of_rows)
    /\ level = NoLevel
    /\ running = FALSE
    /\ is_paused = FALSE
    /\ is_menu_showing = FALSE
    /\ ev = NoTick(FALSE)

\* Game.run up to its loop: running, is_paused, level, is_menu_showing
RunSetup ==
    /\ ~level_maker.error
    /\ ~running
    /\ level = NoLevel
    /\ running' = TRUE
    /\ is_paused' = FALSE
    /\ level' = GetLevel(level_maker)
    /\ is_menu_showing' = TRUE
    /\ UNCHANGED <<ev, level_maker>>

FactoryNext == RunSetup

FactorySpec == FactoryInit /\ [][FactoryNext]_vars

----------------------------------------------------------------------------
(* Properties *)

\* the level is in one of its two final states
Terminal(l) == l.state.is_game_over \/ l.state.is_player_won

\* the blocks of a list that are not marked destroyed
Standing(blocks) == {i \in 1..Len(blocks) : ~blocks[i].is_destroyed}

\* number of blocks of the level struck so far: gone from the list, or still
\* in it and marked destroyed
StruckSoFar(l) == Len(GetLevel(level_maker).blocks) - Cardinality(Standing(l.blocks))

\* C1: when the tries are used up the game is over at the end of that tick,
\* and once the game is over no frame that does not reset the game changes
\* the score, the tries or the block list of the level.
C1_GameOverFreezes ==
    /\ [](level.state.lifes < 1 => level.state.is_game_over)
    /\ [][(level.state.is_game_over /\ ~ev'.reset) =>
            /\ level'.state.score = level.state.score
            /\ level'.state.lifes = level.state.lifes
            /\ level'.blocks = level.blocks]_vars

\* a frame has passed on a level whose game is over, without an update
C1_Witness ==
    /\ level.state.is_game_over
    /\ level.state.lifes = 0
    /\ ~ev.updated
    /\ ~ev.reset

\* C2: the score is 100 times the number of blocks struck so far, in every
\* state: each struck block counts 100 once, by the end of the tick that
\* struck it, and nothing else changes the score.
C2_ScoreConservation == level.state.score = ScoreStep * StruckSoFar(level)

\* C5: the tries never go below 0; a frame that does not reset the game
\* changes them only by taking exactly one, in a tick whose Y pass took the
\* bottom edge branch, and never once they are 0.
C5_LifesNonNegative ==
    /\ [](level.state.lifes >= 0)
    /\ [][(~ev'.reset /\ level'.state.lifes # level.state.lifes) =>
            /\ level'.state.lifes = level.state.lifes - 1
            /\ level.state.lifes >= 1
            /\ ev'.updated
            /\ ev'.yb = "bottom"]_vars

\* a tick has taken a try
C5_Witness ==
    /\ ev.yb = "bottom"
    /\ level.state.lifes = Lifes - 1

C10_TerminalStates ==
    [][Terminal(level) =>
         IF ev'.reset THEN ~Terminal(level') ELSE level' = level]_vars

\* a frame has passed on a won level, without an update
C10_Witness ==
    /\ level.state.is_player_won
    /\ ~ev.updated
    /\ ~ev.reset

\* the ball is tied to the platform: on top of it, centred on it, at rest
BallTied(l) ==
    /\ Bottom(l.ball.rect) = Top(l.platform.rect)
    /\ CenterX(l.ball.rect) = CenterX(l.platform.rect)
    /\ l.ball.speed.x = 0
    /\ l.ball.speed.y = 0

\* the ball is between the left and the right edge of the level
InsideX(l) ==
    /\ Left(l.edges) <= Left(l.ball.rect)
    /\ Right(l.ball.rect) <= Right(l.edges)

\* the ball is between the top and the bottom edge of the level
InsideY(l) ==
    /\ Top(l.edges) <= Top(l.ball.rect)
    /\ Bottom(l.ball.rect) <= Bottom(l.edges)

\* two speeds have components of the same absolute values
SameMagnitude(v, w) ==
    IF v.e = w.e
    THEN Abs(v.x) = Abs(w.x) /\ Abs(v.y) = Abs(w.y)
    ELSE IF v.e < w.e
    THEN /\ Abs(v.x) * (SpeedDen ^ (w.e - v.e)) = Abs(w.x)
         /\ Abs(v.y) * (SpeedDen ^ (w.e - v.e)) = Abs(w.y)
    ELSE /\ Abs(v.x) = Abs(w.x) * (SpeedDen ^ (v.e - w.e))
         /\ Abs(v.y) = Abs(w.y) * (SpeedDen ^ (v.e - w.e))

\* C3: at the end of every tick the ball overlaps neither the platform nor a
\* block that is not marked destroyed.
C3_NoOverlap ==
    /\ ~CollideRect(level.ball.rect, level.platform.rect)
    /\ \A i \in Standing(level.blocks) :
            ~CollideRect(level.ball.rect, level.blocks[i].rect)

\* C4: at the end of every tick the ball is within the left and right edges,
\* and within the top and bottom edges unless the tick lost the ball.
C4_Containment ==
    /\ InsideX(level)
    /\ ev.yb # "bottom" => InsideY(level)

\* C6: a tick whose Y pass finds the ball below the bottom edge, clear of
\* the platform, takes one try and leaves the ball unreleased and tied to
\* the platform; if it was the last try the game is over.
C6_LifeLoss ==
    /\ [](ev.yb = "bottom" =>
            /\ ~level.state.is_ball_released
            /\ BallTied(level)
            /\ level.state.lifes = 0 => level.state.is_game_over)
    /\ [][(ev'.yb = "bottom" /\ ~ev'.reset) =>
            level'.state.lifes = level.state.lifes - 1]_vars

\* C8: while the ball is not released it is at rest and tied to the
\* platform at the end of every tick.
C8_BallSlaved == ~level.state.is_ball_released => BallTied(level)

\* C9: a tick that destroys no block leaves the absolute values of the
\* components of the ball's speed as they were, the 1.02 speed-up of a
\* destroyed block being the only change of magnitude.  Stated for the
\* ticks of a ball in flight: a tick that releases the ball or loses it
\* sets the speed to the launch speed or to (0, 0) and is left out.
C9_SpeedKeptInPlay ==
    [][(ev'.updated /\ ~ev'.reset /\ ev'.struck = 0 /\ ~ev'.released
            /\ ev'.yb # "bottom") =>
            SameMagnitude(level.ball.speed, level'.ball.speed)]_vars

----------------------------------------------------------------------------
(* Properties of the construction (FactorySpec) *)

\* the LevelMaker of Game(Edges(700, 500), 10, 5)
ScenarioMaker == GameInit([width |-> 700, height |-> 500], 10, 5)

\* run has built the level from a LevelMaker
Built == running /\ ~level_maker.error

\* number of blocks of a row, as the spec counts them:
\* floor((width - 2 * margin) / (block_width + margin))
ColumnsFitPerRow(mk) ==
    (mk.edges.width - 2 * mk.horizontal_margin)
        \div (mk.images.block[1] + mk.horizontal_margin)

\* number of x = margin + k * (block_width + margin), k = 0, 1, ..., with
\* x + block_width < width
ColumnsPlaced(mk) ==
    LET room == mk.edges.width - mk.horizontal_margin - mk.images.block[1]
    IN  IF room > 0
        THEN (room - 1) \div (mk.images.block[1] + mk.horizontal_margin) + 1
        ELSE 0

\* the blocks come row by row, n to a row, row i at the i-th step down
\* from the first row, and none is destroyed
RowsOf(mk, blocks, n) ==
    /\ Len(blocks) = n * mk.num_of_rows
    /\ \A j \in 1..Len(blocks) :
           /\ Top(blocks[j].rect) =
                  mk.locals.first_row + ((j - 1) \div n) * mk.vertical_margin
           /\ Left(blocks[j].rect) =
                  mk.horizontal_margin
                      + ((j - 1) % n) * (mk.images.block[1] + mk.horizontal_margin)
           /\ ~blocks[j].is_destroyed

\* C11 as stated: for 700 x 500, 10 columns and 5 rows the level has
\* columns_fit_per_row * 5 blocks with columns_fit_per_row =
\* floor((700 - 2 * margin) / (block_width + margin)), the same number in
\* every row, none destroyed
C11_BlocksAsStated ==
    (Built /\ level_maker = ScenarioMaker)
        => RowsOf(level_maker, level.blocks, ColumnsFitPerRow(level_maker))

\* C11, amended: the level has as many blocks per row as there are
\* x = margin + k * (block_width + margin) with x + block_width < width, the
\* same number in every row, none destroyed; for 700 x 500, 10 columns and
\* 5 rows that is 10 per row, 50 blocks
C11_BlocksPlaced ==
    Built =>
        /\ RowsOf(level_maker, level.blocks, ColumnsPlaced(level_maker))
        /\ level_maker = ScenarioMaker =>
               /\ level_maker.horizontal_margin = 21
               /\ level_maker.images.block[1] = 45
               /\ Len(level.blocks) = 50

C11_Witness ==
    /\ Built
    /\ level_maker = ScenarioMaker
    /\ Len(level.blocks) = 10 * 5
    /\ ColumnsFitPerRow(level_maker) = 9

----------------------------------------------------------------------------
(* Properties of one tick, stated on the state the tick starts from: what  *)
(* the next call of level.update() does, for every state of the keyboard   *)

\* the frame loop can still call level.update() on the level
CanTick == running /\ ~Terminal(level)

\* index of the first block of a list the rectangle collides with, 0 if none
FirstHit(rect, blocks) ==
    LET hits == {i \in 1..Len(blocks) : CollideRect(rect, blocks[i].rect)}
    IN  IF hits = {} THEN 0 ELSE CHOOSE i \in hits : \A j \in hits : i <= j

\* the obstacles the X pass hands to adjust_on_x_collision together with the
\* ball as it has moved on X: the platform, or else the first block hit
XObstacles(m) ==
    IF XBranch(m) = "platform" THEN {m.platform.rect}
    ELSE IF XBranch(m) = "blocks" /\ FirstHit(m.ball.rect, m.blocks) > 0
    THEN {m.blocks[FirstHit(m.ball.rect, m.blocks)].rect}
    ELSE {}

\* x lies strictly between the left and the right edge of r
InSpan(x, r) == x > Left(r) /\ x < Right(r)

\* what adjust_on_x_collision does to mover mov at obstacle r in every case:
\* X speed negated, no overlap left, Y position and Y speed untouched
XResolved(mov, r) ==
    LET a == AdjustOnXCollision(mov, r)
    IN  /\ a.speed.x = 0 - mov.speed.x
        /\ a.speed.y = mov.speed.y
        /\ a.speed.e = mov.speed.e
        /\ a.rect.y = mov.rect.y
        /\ a.rect.w = mov.rect.w
        /\ a.rect.h = mov.rect.h
        /\ ~CollideRect(a.rect, r)

\* the snap as the spec words it: to the obstacle's left when the mover's
\* right edge is inside the obstacle's span and its left edge is not, to
\* the obstacle's right otherwise
XSnapStated(mov, r) ==
    LET a == AdjustOnXCollision(mov, r)
    IN  IF InSpan(Right(mov.rect), r) /\ ~InSpan(Left(mov.rect), r)
        THEN Right(a.rect) = Left(r)
        ELSE Left(a.rect) = Right(r)

\* the snap with the test of the right edge alone
XSnapRightEdge(mov, r) ==
    LET a == AdjustOnXCollision(mov, r)
    IN  IF InSpan(Right(mov.rect), r)
        THEN Right(a.rect) = Left(r)
        ELSE Left(a.rect) = Right(r)

\* C12 as stated: a mover overlapping an obstacle after its X move gets its
\* X speed negated and is snapped clear of the obstacle, its right edge to
\* the obstacle's left edge when it approaches from the left (right edge
\* inside the obstacle's span, left edge not), its left edge to the
\* obstacle's right edge otherwise; Y position and Y speed are unchanged
C12_SnapAsStated ==
    CanTick =>
        \A keys \in Keys :
            LET m == MoveX(ProcessKeyPresses(level, keys))
            IN  \A r \in XObstacles(m) :
                    XResolved(m.ball, r) /\ XSnapStated(m.ball, r)

\* C12, amended: the same, with the snap decided by the right edge alone:
\* when the mover's right edge is strictly inside the obstacle's span,
\* wherever its left edge is, its right edge ends on the obstacle's left
\* edge, otherwise its left edge ends on the obstacle's right edge
C12_SnapByRightEdge ==
    CanTick =>
        \A keys \in Keys :
            LET m == MoveX(ProcessKeyPresses(level, keys))
            IN  \A r \in XObstacles(m) :
                    XResolved(m.ball, r) /\ XSnapRightEdge(m.ball, r)

\* the ball came from the left, overlapped the platform with its right edge
\* and was put back against the platform's left edge, flying left
C12_Witness ==
    /\ ev.updated
    /\ ev.xb = "platform"
    /\ ev.clamp = "none"
    /\ Right(level.ball.rect) = Left(level.platform.rect)
    /\ level.ball.speed.x < 0
    /\ level.state.is_ball_released

----------------------------------------------------------------------------
(* The launch velocity and the release *)

\* the level of Game(Edges(700, 500), 10, 5)
ScenarioLevel == GetLevel(ScenarioMaker)

\* C13: the launch velocity is (r, -r) with r = round(0.005 * height) from
\* the creation of the level on (2 for a height of 500), no tick changes
\* it, not even one that speeds the ball up, and every release, the first
\* and each one after a lost ball, gives the ball exactly that velocity
C13_LaunchVelocity ==
    /\ ScenarioLevel.state.ball_released_speed = Vector2(2, 0 - 2)
    /\ ScenarioLevel.state.ball_released_speed =
           Vector2(Round(5 * 500, 1000), 0 - Round(5 * 500, 1000))
    /\ level.state.ball_released_speed =
           Vector2(level_maker.locals.ball_speed, 0 - level_maker.locals.ball_speed)
    /\ (CanTick /\ ~level.state.is_ball_released) =>
           \A keys \in Keys :
               LET l1 == ProcessKeyPresses(level, keys)
               IN  IF keys.ctrl
                   THEN /\ l1.state.is_ball_released
                        /\ l1.ball.speed = level.state.ball_released_speed
                   ELSE /\ ~l1.state.is_ball_released
                        /\ l1.ball.speed = Vector2(0, 0)

\* the ball was released again after a lost ball, on a level whose ball had
\* been sped up before, and flies at the launch velocity
C13_Witness ==
    /\ ev.released
    /\ level.state.lifes < level_maker.locals.lifes
    /\ level.state.score > 0
    /\ level.state.is_ball_released
    /\ level.ball.speed = level.state.ball_released_speed

\* C14: a release signal while the ball is released is a no-op: the tick
\* does to the level, the ball's velocity included, exactly what it does
\* without the signal; a release signal while the ball is not released
\* sets is_ball_released
C14_ReleaseIdempotent ==
    CanTick =>
        IF level.state.is_ball_released
        THEN /\ ReleaseBall(level) = level
             /\ \A keys \in Keys :
                    /\ ProcessKeyPresses(level, [keys EXCEPT !.ctrl = TRUE])
                           = ProcessKeyPresses(level, [keys EXCEPT !.ctrl = FALSE])
                    /\ Update(level, [keys EXCEPT !.ctrl = TRUE])
                           = Update(level, [keys EXCEPT !.ctrl = FALSE])
        ELSE /\ ReleaseBall(level).state.is_ball_released
             /\ \A keys \in Keys :
                    keys.ctrl => ProcessKeyPresses(level, keys).state.is_ball_released

\* the release key was down in a tick that began with the ball released,
\* sped up and flying down: the ball still has that velocity
C14_Witness ==
    /\ ev.updated
    /\ ev.ctrl
    /\ ~ev.released
    /\ ev.xb = "blocks"
    /\ ev.yb = "blocks"
    /\ ev.struck = 0
    /\ level.state.is_ball_released
    /\ level.ball.speed.e > 0
    /\ level.ball.speed.y > 0

----------------------------------------------------------------------------
(* Validation of the constructor's arguments (FactorySpec) *)

\* a configuration the spec calls invalid, as far as Game takes it as an
\* argument: a window without width or height, or no row of blocks
InvalidConfiguration(mk) ==
    \/ mk.edges.width <= 0
    \/ mk.edges.height <= 0
    \/ mk.num_of_rows <= 0

\* C15: invalid construction parameters are rejected with an error when the
\* game or the level is constructed, so no Level is ever created from them
C15_InvalidRejected ==
    (~level_maker.error /\ InvalidConfiguration(level_maker)) => level = NoLevel

----------------------------------------------------------------------------
(* Reset *)

\* the level get_level returns for the game's LevelMaker
Fresh == GetLevel(level_maker)

\* a level as it is at the start of a game of LevelMaker mk: nothing
\* scored, all tries, the full grid of blocks with none destroyed, the
\* platform at its start position, the ball tied to it, the launch velocity
\* of the creation, not over, not won
AsAtStart(l, mk) ==
    /\ l.state.score = 0
    /\ l.state.lifes = mk.locals.lifes
    /\ l.blocks = PlaceRows(mk, 0, mk.locals.first_row, <<>>)
    /\ NumDestroyed(l.blocks) = 0
    /\ Left(l.platform.rect) = Trunc(mk.edges.width, 2)
    /\ Top(l.platform.rect) = Trunc(mk.edges.height * 75, 100)
    /\ Bottom(l.ball.rect) = Top(l.platform.rect)
    /\ CenterX(l.ball.rect) = CenterX(l.platform.rect)
    /\ l.ball.speed = Vector2(0, 0)
    /\ ~l.state.is_ball_released
    /\ l.state.ball_released_speed =
           Vector2(mk.locals.ball_speed, 0 - mk.locals.ball_speed)
    /\ ~l.state.is_game_over
    /\ ~l.state.is_player_won

\* C16: whatever the level has been through, the reset replaces it by a
\* level identical to the one the game started with, nothing carried over:
\* the level the reset event leaves is that level, and the level a frame
\* with a reset ends with is that level, ticked if the frame ticks
C16_ResetReplaces ==
    /\ AsAtStart(Fresh, level_maker)
    /\ LET g == HandleEvent([running |-> running, is_paused |-> is_paused,
                             is_menu_showing |-> is_menu_showing, level |-> level],
                            "K_DELETE")
       IN  g.level = Fresh
    /\ ev.reset =>
           IF ev.updated
           THEN \E keys \in Keys : level = Update(Fresh, keys)
           ELSE level = Fresh

\* a frame with a reset has just ended: the level is the start level after
\* the one tick of that frame
C16_Witness ==
    /\ ev.reset
    /\ ev.updated
    /\ level = Update(Fresh, [ctrl |-> FALSE, a |-> FALSE, d |-> FALSE])
    /\ AsAtStart(level, level_maker)
    /\ is_menu_showing
    /\ ~is_paused

----------------------------------------------------------------------------
(* The level as constructed (FactorySpec) *)

\* C17: a level fresh from the factory has its platform at x = width / 2,
\* y = 0.75 * height, the ball tied to it (ball.bottom = platform.top, same
\* centerx, velocity (0, 0), not released), score 0, 4 lifes, and is neither
\* over nor won
C17_FreshLevel ==
    Built =>
        /\ 2 * Left(level.platform.rect) = level_maker.edges.width
        /\ 100 * Top(level.platform.rect) = 75 * level_maker.edges.height
        /\ Bottom(level.ball.rect) = Top(level.platform.rect)
        /\ CenterX(level.ball.rect) = CenterX(level.platform.rect)
        /\ level.ball.speed = Vector2(0, 0)
        /\ ~level.state.is_ball_released
        /\ level.state.score = 0
        /\ level.state.lifes = 4
        /\ ~level.state.is_game_over
        /\ ~level.state.is_player_won

\* the level of the 700 x 500 game as run has just built it
C17_Witness ==
    /\ Built
    /\ level_maker = ScenarioMaker
    /\ Left(level.platform.rect) = 350
    /\ Top(level.platform.rect) = 375
    /\ Bottom(level.ball.rect) = 375
    /\ level.state.lifes = 4

----------------------------------------------------------------------------
(* The correction of a squeezed ball *)

\* the condition of the spec: the ball's vertical span has crossed into the
\* platform's, and the ball is out of the boundary on the left or the right
SqueezedAsStated(l) ==
    /\ Bottom(l.ball.rect) > Top(l.platform.rect)
    /\ Top(l.ball.rect) < Bottom(l.platform.rect)
    /\ \/ Right(l.ball.rect) > Right(l.edges)
       \/ Left(l.ball.rect) < Left(l.edges)

\* C18: in a tick where, after the X and the Y pass, the ball's vertical
\* span has crossed into the platform's and the ball is out of the boundary
\* horizontally, the ball ends the tick directly above the platform
\* (ball.bottom = platform.top); in any other tick the correction does not
\* move the ball
C18_SqueezedBallAbove ==
    CanTick =>
        \A keys \in Keys :
            LET l3 == YPass(XPass(ProcessKeyPresses(level, keys)))
                end == Update(level, keys)
            IN  IF SqueezedAsStated(l3)
                THEN Bottom(end.ball.rect) = Top(end.platform.rect)
                ELSE Squeeze(l3).ball = l3.ball

----------------------------------------------------------------------------
(* The blocks a tick strikes and removes *)

\* C19: at the end of every tick no block marked destroyed is left in the
\* level's list of blocks, however many blocks the tick marked and wherever
\* they are in the list
C19_CleanupComplete == NumDestroyed(level.blocks) = 0

\* the blocks of a list with the f-th marked destroyed, the list itself for
\* f = 0
Marked(blocks, f) ==
    IF f = 0 THEN blocks ELSE [blocks EXCEPT ![f] = SetIsDestroyed(blocks[f])]

\* the X pass as the spec has it, on level l with the ball moved on X to m:
\* the platform or an edge leaves the blocks alone, and among the blocks
\* only the first one hit is resolved and marked
XPassFirstMatch(m, l2) ==
    LET f == FirstHit(m.ball.rect, m.blocks)
    IN  IF XBranch(m) # "blocks" THEN l2.blocks = m.blocks
        ELSE /\ l2.blocks = Marked(m.blocks, f)
             /\ l2.ball = IF f = 0 THEN m.ball
                          ELSE AdjustOnXCollision(m.ball, m.blocks[f].rect)

\* the same for the Y pass
YPassFirstMatch(m, l3) ==
    LET f == FirstHit(m.ball.rect, m.blocks)
    IN  IF YBranch(m) # "blocks" THEN l3.blocks = m.blocks
        ELSE /\ l3.blocks = Marked(m.blocks, f)
             /\ l3.ball = IF f = 0 THEN m.ball ELSE AdjustOnYCollision(m.ball)

----------------------------------------------------------------------------
(* The platform *)

\* the platform of l lies between the left and the right edge of the level
PlatformInside(l) ==
    /\ Left(l.edges) <= Left(l.platform.rect)
    /\ Right(l.platform.rect) <= Right(l.edges)

\* the platform of l after the key presses of a tick, before the clamp: the
\* collision passes and the squeeze do not touch the platform
PlatformMoved(l, keys) == ProcessKeyPresses(l, keys).platform

\* C21: at the end of every tick the platform lies within the level edges
\* horizontally, whichever of the left and right keys were down; a tick whose
\* key presses carried the platform over an edge leaves it on that edge with
\* the X component of its speed negated
C21_PaddleClamped ==
    /\ ev.updated => PlatformInside(level)
    /\ CanTick =>
          \A keys \in Keys :
              LET moved == PlatformMoved(level, keys)
                  end == Update(level, keys).platform
              IN  /\ PlatformInside(Update(level, keys))
                  /\ Right(moved.rect) > Right(level.edges) =>
                        /\ Right(end.rect) = Right(level.edges)
                        /\ end.speed.x = VecNeg(moved.speed.x)
                  /\ Left(moved.rect) < Left(level.edges) =>
                        /\ Left(end.rect) = Left(level.edges)
                        /\ end.speed.x = VecNeg(moved.speed.x)
                  /\ PlatformInside([platform |-> moved, edges |-> level.edges]) =>
                        end = moved

\* a tick has just clamped the platform to the left edge and turned its speed
\* to the right
C21_Witness ==
    /\ ev.updated
    /\ ev.clamp = "left"
    /\ Left(level.platform.rect) = Left(level.edges)
    /\ level.platform.speed.x > 0

\* whether the tick of l with keys clamps the platform
ClampsPlatform(l, keys) ==
    ClampBranch(Squeeze(YPass(XPass(ProcessKeyPresses(l, keys))))) # "none"

\* C22: the platform moves horizontally only.  Its Y position (and its size)
\* is the one the level started with in every state, also when its speed has
\* a vertical component; and a tick changes its position only if the left or
\* the right key is down or the tick clamps it to an edge
C22_HorizontalOnly ==
    /\ level.platform.rect.y = Fresh.platform.rect.y
    /\ level.platform.rect.w = Fresh.platform.rect.w
    /\ level.platform.rect.h = Fresh.platform.rect.h
    /\ CanTick =>
          \A keys \in Keys :
              LET end == Update(level, keys).platform
              IN  /\ end.rect.y = level.platform.rect.y
                  /\ end.rect # level.platform.rect =>
                        keys.a \/ keys.d \/ ClampsPlatform(level, keys)

\* a tick has moved a platform whose speed has a vertical component: it is
\* away from its first X position, on its first Y position
C22_Witness ==
    /\ ev.updated
    /\ level.platform.speed.y # 0
    /\ level.platform.rect.x # Fresh.platform.rect.x
    /\ level.platform.rect.y = Fresh.platform.rect.y

----------------------------------------------------------------------------
(* The menu *)

\* the frame drew the menu instead of the level: "if is_menu_showing or
\* is_paused" at the end of the loop body
OverlayShown == is_menu_showing \/ is_paused

\* C23: a frame that shows the menu or pause overlay (the menu the game
\* starts with and the menu after a reset included) does not call
\* level.update(), so it leaves ball, platform, blocks, score and lifes alone
C23_NoUpdateUnderOverlay == OverlayShown => ~ev.updated

----------------------------------------------------------------------------
(* The two ends of a level *)

\* the tick that has just ended left no try and no block
LostAndCleared ==
    /\ ev.updated
    /\ level.state.lifes < 1
    /\ Len(level.blocks) = 0

\* C24: is_game_over and is_player_won are never both true in a state the
\* loop reaches, so no frame after the one that set one flag sets the other;
\* and a tick that ends with lifes < 1 and no block left sets is_game_over
\* only
C24_FlagsExclusive ==
    /\ ~(level.state.is_game_over /\ level.state.is_player_won)
    /\ LostAndCleared => level.state.is_game_over /\ ~level.state.is_player_won

\* a tick has struck the last block and lost the last ball at once, and the
\* level is over, not won
C24_Witness ==
    /\ LostAndCleared
    /\ ev.struck = 1
    /\ ev.yb = "bottom"
    /\ level.state.is_game_over
    /\ ~level.state.is_player_won

====
